---------------------------- MODULE Spec2Model ----------------------------
(***************************************************************************)
(* A model of PyGsiElev: the standard regional mesh codec                  *)
(* (pygsielev/standard_meshcode.py) and the single-tile elevation          *)
(* extractor (pygsielev/elevation.py).                                     *)
(*                                                                         *)
(* Python floats are IEEE-754 binary64.  The codec is modelled on them bit *)
(* for bit: a float is a non-negative multiple of 2^-64 held in five       *)
(* 16-bit limbs (limb 1 the least significant, limb 5 the integer part),   *)
(* and every arithmetic operation is the exact operation followed by       *)
(* rounding to 53 significant bits, ties to even.                          *)
(***************************************************************************)
EXTENDS Integers, Sequences, FiniteSets, TLC

VARIABLES
  plon, plat,  \* the codec's input point (floats)
  mop,         \* which codec function was applied last
  mlevel,      \* the level asked of it (0: none)
  mcode,       \* the mesh code it returned
  mext         \* what get_extent returned for mcode

mvars == <<plon, plat, mop, mlevel, mcode, mext>>

VARIABLES
  tile,        \* which of TilesA the data directory holds for cell 5339-45-37
  extractor,   \* the ElevationExtractor's fields
  pre,         \* its fields when the last get_elevation call began
  qlon, qlat,  \* the point of the last call
  loads,       \* how many times the last call ran read_xml_file
  result       \* what the last call returned or raised

evars == <<tile, extractor, pre, qlon, qlat, loads, result>>

vars == <<mvars, evars>>

(***************************************************************************)
(* binary64 arithmetic                                                     *)
(***************************************************************************)
Base == 2^16

\* significand width of a Python float
Prec == 53

\* The one element of a singleton.  An operator below that reads an operand
\* more than once takes it as v \in {operand}: the operand is then evaluated
\* once, to a value, however deep the expression it comes from.
The(S) == CHOOSE r \in S : TRUE

FZero == <<0, 0, 0, 0, 0>>

FromInt(n) == <<0, 0, 0, 0, n>>

\* carries (or borrows) propagated from limb 1 upwards
Norm(t1, t2, t3, t4, t5) ==
  LET s2 == t2 + (t1 \div Base)
      s3 == t3 + (s2 \div Base)
      s4 == t4 + (s3 \div Base)
      s5 == t5 + (s4 \div Base)
  IN  <<t1 % Base, s2 % Base, s3 % Base, s4 % Base, s5>>

XAdd(a, b) ==
  The({ Norm(x[1] + y[1], x[2] + y[2], x[3] + y[3], x[4] + y[4], x[5] + y[5]) :
          x \in {a}, y \in {b} })

XSub(a, b) ==
  The({ Norm(x[1] - y[1], x[2] - y[2], x[3] - y[3], x[4] - y[4], x[5] - y[5]) :
          x \in {a}, y \in {b} })

XMul(a, k) ==
  The({ Norm(x[1] * k, x[2] * k, x[3] * k, x[4] * k, x[5] * k) : x \in {a} })

FLess(a, b) ==
  \E x \in {a}, y \in {b} :
    \E i \in 1..5 : x[i] < y[i] /\ \A j \in (i+1)..5 : x[j] = y[j]

FLeq(a, b) == ~FLess(b, a)

\* the number of bits of n < 2^16
BitLen4(n) == IF n < 4 THEN (IF n < 2 THEN n ELSE 2) ELSE (IF n < 8 THEN 3 ELSE 4)

BitLen8(n) == IF n < 16 THEN BitLen4(n) ELSE 4 + BitLen4(n \div 16)

BitLen16(n) == IF n < 256 THEN BitLen8(n) ELSE 8 + BitLen8(n \div 256)

\* the number of bits of n < 2^31
BitLenInt(n) == IF n < Base THEN BitLen16(n) ELSE 16 + BitLen16(n \div Base)

\* the number of bits of a value a
BitLen(a) ==
  IF a[5] # 0 THEN 64 + BitLenInt(a[5])
  ELSE IF a[4] # 0 THEN 48 + BitLenInt(a[4])
  ELSE IF a[3] # 0 THEN 32 + BitLenInt(a[3])
  ELSE IF a[2] # 0 THEN 16 + BitLenInt(a[2])
  ELSE BitLenInt(a[1])

Pow2(s) == [i \in 1..5 |-> IF i = (s \div 16) + 1 THEN 2^(s % 16) ELSE 0]

ModPow2(a, s) ==
  [i \in 1..5 |-> IF 16 * i <= s THEN a[i]
                  ELSE IF 16 * (i - 1) >= s THEN 0
                  ELSE a[i] % 2^(s - 16 * (i - 1))]

BitAt(a, s) == (a[(s \div 16) + 1] \div 2^(s % 16)) % 2

\* a value v of n > Prec bits, rounded to nearest, ties to even
RoundAt(v, n) ==
  The({ IF FLess(h, r) \/ (r = h /\ BitAt(v, n - Prec) = 1)
        THEN XAdd(XSub(v, r), Pow2(n - Prec))
        ELSE XSub(v, r) :
          r \in {ModPow2(v, n - Prec)}, h \in {Pow2(n - Prec - 1)} })

\* round to nearest, ties to even, at Prec significant bits
Round(a) ==
  The({ IF n <= Prec THEN v ELSE RoundAt(v, n) : <<v, n>> \in {<<x, BitLen(x)>> : x \in {a}} })

\* floor(a / c) for a small integer c, the lowest bit made sticky when the
\* division leaves a remainder, so that Round sees on which side of a tie
\* the exact quotient lies
XDivValue(v, c) ==
  LET x5 == v[5]
      x4 == (x5 % c) * Base + v[4]
      x3 == (x4 % c) * Base + v[3]
      x2 == (x3 % c) * Base + v[2]
      x1 == (x2 % c) * Base + v[1]
      q1 == x1 \div c
  IN  <<IF x1 % c # 0 /\ q1 % 2 = 0 THEN q1 + 1 ELSE q1,
        x2 \div c, x3 \div c, x4 \div c, x5 \div c>>

XDiv(a, c) == The({ XDivValue(v, c) : v \in {a} })

FAdd(a, b) == Round(XAdd(a, b))

FSub(a, b) == Round(XSub(a, b))

\* a * (n / d) and a / (n / d) for a float constant n/d
FMul(a, n, d) == Round(XDiv(XMul(a, n), d))

FDiv(a, n, d) == Round(XDiv(XMul(a, d), n))

\* int() of a non-negative float
IntPart(a) == a[5]

(***************************************************************************)
(* standard_meshcode.py.  A mesh code is the sequence of its decimal       *)
(* digits; Python's code[i] is At(code, i).                                *)
(***************************************************************************)
At(code, i) == code[i + 1]

\* code[i:j]
Slice(code, i, j) == SubSeq(code, i + 1, j)

\* the decimal digits of a non-negative integer
RECURSIVE Dec(_)
Dec(n) == IF n < 10 THEN <<n>> ELSE Dec(n \div 10) \o <<n % 10>>

\* "{:02d}".format(n) and "{:01d}".format(n)
Fmt02(n) == IF n < 10 THEN <<0, n>> ELSE Dec(n)

Fmt01(n) == Dec(n)

\* float(code[i:i+2]) and float(code[i])
Num2(code, i) == FromInt(10 * At(code, i) + At(code, i + 1))

Num1(code, i) == FromInt(At(code, i))

\* int(c in "34"), int(c in "24"), c in "1234"
In34(c) == IF c \in {3, 4} THEN 1 ELSE 0

In24(c) == IF c \in {2, 4} THEN 1 ELSE 0

In1234(c) == c \in {1, 2, 3, 4}

\* re.sub(r'\D', '', code)
StripNonDigits(code) == SelectSeq(code, LAMBDA c : c \in 0..9)

ValueError == [ok |-> FALSE, err |-> "ValueError"]

Extent(lon0, lat0, lon1, lat1) == [ok |-> TRUE, ext |-> <<lon0, lat0, lon1, lat1>>]

\* the float constants 1.0 / n
Recip(n) == FDiv(FromInt(1), n, 1)

get_level1_extent(c) ==
  LET code == StripNonDigits(c) IN
  IF Len(code) # 4 THEN ValueError
  ELSE LET lat0 == FDiv(Num2(code, 0), 3, 2)
           lon0 == FAdd(Num2(code, 2), FromInt(100))
           lat1 == FAdd(lat0, FDiv(FromInt(2), 3, 1))
           lon1 == FAdd(lon0, FromInt(1))
       IN  Extent(lon0, lat0, lon1, lat1)

get_level2_extent(c) ==
  LET code == StripNonDigits(c) IN
  IF Len(code) # 6 THEN ValueError
  ELSE LET lat0 == FAdd(FDiv(Num2(code, 0), 3, 2), FDiv(Num1(code, 4), 12, 1))
           lon0 == FAdd(FAdd(Num2(code, 2), FromInt(100)), FDiv(Num1(code, 5), 8, 1))
           lat1 == FAdd(lat0, Recip(12))
           lon1 == FAdd(lon0, Recip(8))
       IN  Extent(lon0, lat0, lon1, lat1)

\* the sums shared by the level 3..6 and the 2km formulas, added left to right
Lat3(code) ==
  FAdd(FAdd(FDiv(Num2(code, 0), 3, 2), FDiv(Num1(code, 4), 12, 1)),
       FDiv(Num1(code, 6), 120, 1))

Lon3(code) ==
  FAdd(FAdd(FAdd(Num2(code, 2), FromInt(100)), FDiv(Num1(code, 5), 8, 1)),
       FDiv(Num1(code, 7), 80, 1))

\* get_level3_extent with the Level2 longitude step for its width
get_level3_extent_wide(c) ==
  LET code == StripNonDigits(c) IN
  IF Len(code) # 8 THEN ValueError
  ELSE LET lat0 == Lat3(code)
           lon0 == Lon3(code)
           lat1 == FAdd(lat0, Recip(120))
           lon1 == FAdd(lon0, Recip(8))
       IN  Extent(lon0, lat0, lon1, lat1)

get_level3_extent(c) ==
  LET code == StripNonDigits(c) IN
  IF Len(code) # 8 THEN ValueError
  ELSE LET lat0 == Lat3(code)
           lon0 == Lon3(code)
           lat1 == FAdd(lat0, Recip(120))
           lon1 == FAdd(lon0, Recip(80))
       IN  Extent(lon0, lat0, lon1, lat1)

get_level4_extent(c) ==
  LET code == StripNonDigits(c) IN
  IF Len(code) # 9 \/ ~In1234(At(code, 8)) THEN ValueError
  ELSE LET lat0 == FAdd(Lat3(code), XMul(Recip(240), In34(At(code, 8))))
           lon0 == FAdd(Lon3(code), XMul(Recip(160), In24(At(code, 8))))
           lat1 == FAdd(lat0, Recip(240))
           lon1 == FAdd(lon0, Recip(160))
       IN  Extent(lon0, lat0, lon1, lat1)

get_level5_extent(c) ==
  LET code == StripNonDigits(c) IN
  IF Len(code) # 10 \/ ~In1234(At(code, 8)) \/ ~In1234(At(code, 9))
  THEN ValueError
  ELSE LET lat0 == FAdd(FAdd(Lat3(code), XMul(Recip(240), In34(At(code, 8)))),
                        XMul(Recip(480), In34(At(code, 9))))
           lon0 == FAdd(FAdd(Lon3(code), XMul(Recip(160), In24(At(code, 8)))),
                        XMul(Recip(320), In24(At(code, 9))))
           lat1 == FAdd(lat0, Recip(480))
           lon1 == FAdd(lon0, Recip(320))
       IN  Extent(lon0, lat0, lon1, lat1)

get_level6_extent(c) ==
  LET code == StripNonDigits(c) IN
  IF Len(code) # 11 \/ ~In1234(At(code, 8)) \/ ~In1234(At(code, 9))
     \/ ~In1234(At(code, 10))
  THEN ValueError
  ELSE LET lat0 == FAdd(FAdd(FAdd(Lat3(code), XMul(Recip(240), In34(At(code, 8)))),
                             XMul(Recip(480), In34(At(code, 9)))),
                        XMul(Recip(960), In34(At(code, 10))))
           lon0 == FAdd(FAdd(FAdd(Lon3(code), XMul(Recip(160), In24(At(code, 8)))),
                             XMul(Recip(320), In24(At(code, 9)))),
                        XMul(Recip(640), In24(At(code, 10))))
           lat1 == FAdd(lat0, Recip(960))
           lon1 == FAdd(lon0, Recip(640))
       IN  Extent(lon0, lat0, lon1, lat1)

get_2km_extent(c) ==
  LET code == StripNonDigits(c) IN
  IF Len(code) # 9 \/ At(code, 8) # 5 THEN ValueError
  ELSE LET lat0 == Lat3(code)
           lon0 == Lon3(code)
           lat1 == FAdd(lat0, Recip(60))
           lon1 == FAdd(lon0, Recip(40))
       IN  Extent(lon0, lat0, lon1, lat1)

get_5km_extent(c) ==
  LET code == StripNonDigits(c) IN
  IF Len(code) # 7 \/ ~In1234(At(code, 6)) THEN ValueError
  ELSE LET lat0 == FAdd(FAdd(FDiv(Num2(code, 0), 3, 2), FDiv(Num1(code, 4), 12, 1)),
                        FDiv(FromInt(In34(At(code, 6))), 24, 1))
           lon0 == FAdd(FAdd(FAdd(Num2(code, 2), FromInt(100)),
                             FDiv(Num1(code, 5), 8, 1)),
                        FDiv(FromInt(In24(At(code, 6))), 16, 1))
           lat1 == FAdd(lat0, Recip(24))
           lon1 == FAdd(lon0, Recip(16))
       IN  Extent(lon0, lat0, lon1, lat1)

get_extent(c) ==
  LET code     == StripNonDigits(c)
      code_len == Len(code)
  IN  IF code_len = 4 THEN get_level1_extent(code)
      ELSE IF code_len = 6 THEN get_level2_extent(code)
      ELSE IF code_len = 7 THEN get_2km_extent(code)
      ELSE IF code_len = 8 THEN get_level3_extent(code)
      ELSE IF code_len = 9
        THEN IF At(code, 8) = 5 THEN get_5km_extent(code)
             ELSE IF In1234(At(code, 8)) THEN get_level4_extent(code)
             ELSE ValueError
      ELSE IF code_len = 10 THEN get_level5_extent(code)
      ELSE IF code_len = 11 THEN get_level6_extent(code)
      ELSE ValueError

\* 1 + 2 * int(y >= 1.0) + int(x >= 1.0)
QuadrantDigit(x, y) ==
  1 + 2 * (IF FLeq(FromInt(1), y) THEN 1 ELSE 0) + (IF FLeq(FromInt(1), x) THEN 1 ELSE 0)

\* x - d for the integer part d of x
Rest(x) == The({ FSub(v, FromInt(IntPart(v))) : v \in {x} })

\* get_level6_meshcode, a stage at a time: each stage takes the digits so
\* far and the remainders modx, mody of the stage before it.

\* 6th level (1/8): 2x2 split
Level6Stage(digits, modx, mody) ==
  The({ digits \o Fmt01(QuadrantDigit(x, y)) :
          x \in {FMul(modx, 2, 1)}, y \in {FMul(mody, 2, 1)} })

\* 5th level (1/4): 2x2 split
Level5Stage(digits, modx, mody) ==
  The({ Level6Stage(digits \o Fmt01(d7),
                    FSub(x, FromInt(In24(d7))), FSub(y, FromInt(In34(d7)))) :
          <<x, y, d7>> \in {<<u, v, QuadrantDigit(u, v)>> :
                              u \in {FMul(modx, 2, 1)}, v \in {FMul(mody, 2, 1)}} })

\* 4th level (1/2): 2x2 split
Level4Stage(digits, modx, mody) ==
  The({ Level5Stage(digits \o Fmt01(d6),
                    FSub(x, FromInt(In24(d6))), FSub(y, FromInt(In34(d6)))) :
          <<x, y, d6>> \in {<<u, v, QuadrantDigit(u, v)>> :
                              u \in {FMul(modx, 2, 1)}, v \in {FMul(mody, 2, 1)}} })

\* 3rd level: 10x10 split
Level3Stage(digits, modx, mody) ==
  The({ Level4Stage(digits \o Fmt01(IntPart(y)) \o Fmt01(IntPart(x)), Rest(x), Rest(y)) :
          x \in {FMul(modx, 10, 1)}, y \in {FMul(mody, 10, 1)} })

\* 2nd level: 8x8 split
Level2Stage(digits, modx, mody) ==
  The({ Level3Stage(digits \o Fmt01(IntPart(y)) \o Fmt01(IntPart(x)), Rest(x), Rest(y)) :
          x \in {FMul(modx, 8, 1)}, y \in {FMul(mody, 8, 1)} })

get_level6_meshcode(lon, lat) ==
  The({ Level2Stage(Fmt02(IntPart(y)) \o Fmt02(IntPart(x)), Rest(x), Rest(y)) :
          y \in {FMul(lat, 3, 2)}, x \in {FSub(lon, FromInt(100))} })

get_level1_meshcode(lon, lat) == Slice(get_level6_meshcode(lon, lat), 0, 4)

get_level2_meshcode(lon, lat) == Slice(get_level6_meshcode(lon, lat), 0, 6)

get_level3_meshcode(lon, lat) == Slice(get_level6_meshcode(lon, lat), 0, 8)

get_level4_meshcode(lon, lat) == Slice(get_level6_meshcode(lon, lat), 0, 9)

get_level5_meshcode(lon, lat) == Slice(get_level6_meshcode(lon, lat), 0, 10)

\* the digit kept whether odd or even
EvenDown_keep(c) == c

\* chr(ord(c) - 1) if c in "13579" else c
EvenDown(c) == IF c \in {1, 3, 5, 7, 9} THEN c - 1 ELSE c

get_2km_meshcode(lon, lat) ==
  The({ Slice(code, 0, 6) \o <<EvenDown(At(code, 6)), EvenDown(At(code, 7)), 5>> :
          code \in {get_level6_meshcode(lon, lat)} })

get_5km_meshcode(lon, lat) ==
  The({ Slice(code, 0, 6)
          \o Fmt01(1 + 2 * (IF At(code, 6) >= 5 THEN 1 ELSE 0)
                     + (IF At(code, 7) >= 5 THEN 1 ELSE 0)) :
          code \in {get_level6_meshcode(lon, lat)} })

(***************************************************************************)
(* elevation.py.  None is the empty tuple and any other value x is <<x>>,  *)
(* so that a field that may be None has one type; math.nan is None in      *)
(* place of a sample value.  'データなし', the label of the no-data result, is  *)
(* written "nodata".                                                       *)
(***************************************************************************)
None == <<>>

Some(x) == <<x>>

NaN == None

NoData == <<NaN, "nodata">>

\* A text is the sequence of its characters.
Digits == <<"0", "1", "2", "3", "4", "5", "6", "7", "8", "9">>

DigitChar == {Digits[i] : i \in 1..10}

DigitOrDot == DigitChar \cup {"."}

SpaceChar == {" "}

AllIn(t, S) == \A i \in 1..Len(t) : t[i] \in S

\* str(n) for n >= 0
Str(n) == [i \in 1..Len(Dec(n)) |-> Digits[Dec(n)[i] + 1]]

DigitValue(c) == (CHOOSE i \in 1..10 : Digits[i] = c) - 1

RECURSIVE Decimal(_)
Decimal(t) ==
  IF t = <<>> THEN 0
  ELSE 10 * Decimal(SubSeq(t, 1, Len(t) - 1)) + DigitValue(t[Len(t)])

\* str.strip()
RECURSIVE Strip(_)
Strip(t) ==
  IF t # <<>> /\ t[1] \in SpaceChar THEN Strip(Tail(t))
  ELSE IF t # <<>> /\ t[Len(t)] \in SpaceChar THEN Strip(SubSeq(t, 1, Len(t) - 1))
  ELSE t

\* int(text): the value, or None where Python raises ValueError
PyInt(t) ==
  The({ IF u # <<>> /\ AllIn(u, DigitChar) THEN Some(Decimal(u)) ELSE None :
          u \in {Strip(t)} })

\* \d+
IsDigits(g) == g # <<>> /\ AllIn(g, DigitChar)

\* [\d\.]+
IsDigitsOrDots(g) == g # <<>> /\ AllIn(g, DigitOrDot)

\* [\d\.].+
IsDigitOrDotThenAny(g) == Len(g) >= 2 /\ g[1] \in DigitOrDot

\* a group pattern against a piece of text
GroupMatches(pat, g) ==
  CASE pat = "\\d+"        -> IsDigits(g)
    [] pat = "[\\d\\.]+"   -> IsDigitsOrDots(g)
    [] pat = "[\\d\\.].+"  -> IsDigitOrDotThenAny(g)

\* The two groups of a pattern  (p1)\s+(p2)  matched against the whole of a
\* text t, as re finds them: the longest first group that lets the rest
\* match, then the longest run of spaces.  None when there is no match.
Groups(t, p1, p2) ==
  LET n == Len(t)
      ok(i, j) == /\ GroupMatches(p1, SubSeq(t, 1, i))
                  /\ AllIn(SubSeq(t, i + 1, j), SpaceChar)
                  /\ GroupMatches(p2, SubSeq(t, j + 1, n))
      cuts == {c \in (1..n) \X (1..n) : c[1] < c[2] /\ c[2] < n /\ ok(c[1], c[2])}
  IN  IF cuts = {} THEN None
      ELSE LET c == CHOOSE c \in cuts :
                      \A d \in cuts : d[1] < c[1] \/ (d[1] = c[1] /\ d[2] <= c[2])
           IN  Some(<<SubSeq(t, 1, c[1]), SubSeq(t, c[2] + 1, n)>>)

\* re_high: <gml:high>(\d+)\s+(\d+)</gml:high>
re_high(t) == Groups(t, "\\d+", "\\d+")

\* re_startpoint: <gml:startPoint>([\d\.].+)\s+([\d\.]+)</gml:startPoint>
re_startpoint(t) == Groups(t, "[\\d\\.].+", "[\\d\\.]+")

(***************************************************************************)
(* A line of a tile's XML is its element (tag) and what the element holds: *)
(* the digits of <mesh>, the two numbers "lat lon" of a corner (g1, g2, in *)
(* units of the query lattice), the text of <gml:high> and of              *)
(* <gml:startPoint> with the two integers it was written from (g1, g2),    *)
(* the type and the value of a data row "type,value".                      *)
(***************************************************************************)
Line(tag, g1, g2, text) ==
  [tag |-> tag, g1 |-> g1, g2 |-> g2, text |-> text, loctype |-> ""]

OtherLine == Line("other", 0, 0, <<>>)

MeshLine(code) == Line("mesh", 0, 0, [i \in 1..Len(code) |-> Digits[code[i] + 1]])

LowerLine(lat, lon) == Line("lower", lat, lon, <<>>)

UpperLine(lat, lon) == Line("upper", lat, lon, <<>>)

HighLine(x, y) == Line("high", x, y, Str(x) \o <<" ">> \o Str(y))

TupleStart == Line("tupleStart", 0, 0, <<>>)

TupleEnd == Line("tupleEnd", 0, 0, <<>>)

RowLine(loctype, value) ==
  [tag |-> "row", g1 |-> 0, g2 |-> value, text |-> <<>>, loctype |-> loctype]

StartPointLine(x, y) == Line("startPoint", x, y, Str(x) \o <<" ">> \o Str(y))

\* re_X.search(ln) is not None
MatchMesh(ln) == ln.tag = "mesh" /\ IsDigits(ln.text)

MatchLower(ln) == ln.tag = "lower"

MatchUpper(ln) == ln.tag = "upper"

MatchHigh(ln) == ln.tag = "high" /\ re_high(ln.text) # None

MatchDataStart(ln) == ln.tag = "tupleStart"

MatchDataEnd(ln) == ln.tag = "tupleEnd"

MatchStartPoint(ln) == ln.tag = "startPoint" /\ re_startpoint(ln.text) # None

\* re_X.search(ln) is not None, for the pattern of a marker
Matches(marker, ln) ==
  CASE marker = "mesh"       -> MatchMesh(ln)
    [] marker = "lower"      -> MatchLower(ln)
    [] marker = "upper"      -> MatchUpper(ln)
    [] marker = "high"       -> MatchHigh(ln)
    [] marker = "tupleStart" -> MatchDataStart(ln)
    [] marker = "tupleEnd"   -> MatchDataEnd(ln)
    [] marker = "startPoint" -> MatchStartPoint(ln)

\* the next loop starting over from the first line
After_top(f, at) == 1

\* for ln in f: if re_X.search(ln): break -- the line it breaks on (0: none,
\* f is exhausted), and the line the next loop over f starts at
Seek(f, from, marker) ==
  IF \E i \in from..Len(f) : Matches(marker, f[i])
  THEN CHOOSE i \in from..Len(f) :
         Matches(marker, f[i]) /\ \A j \in from..(i - 1) : ~Matches(marker, f[j])
  ELSE 0

After(f, at) == IF at = 0 THEN Len(f) + 1 ELSE at + 1

\* ElevationExtractor's fields after __init__ / clear()
Cleared ==
  [mesh |-> None, start_pos |-> 0, data |-> None, extent |-> None, gridsize |-> None]

\* clear() leaving the fields as they are
clear_keep(self) == self

clear(self) == Cleared

\* what a method call ends in: the fields, and the exception raised if any
Returns(self) == [self |-> self, exc |-> "none"]

Raises(self, exc) == [self |-> self, exc |-> exc]

\* the data row with the threshold taken inclusively
Sample_leq(ln) ==
  IF ln.g2 <= -9000 THEN <<NaN, ln.loctype>> ELSE <<Some(ln.g2), ln.loctype>>

\* lines 141-146: one data row
Sample(ln) ==
  IF ln.g2 < -9000 THEN <<NaN, ln.loctype>> ELSE <<Some(ln.g2), ln.loctype>>

\* lines 157-159
StoreTile(self, xlen, startx, starty, data) ==
  IF xlen = None THEN Raises(self, "UnboundLocalError")
  ELSE Returns([self EXCEPT !.start_pos = starty * xlen[1] + startx,
                            !.data = Some(data)])

\* lines 148-155: start point
ReadStartPoint(self, f, from, xlen, data) ==
  The({ IF at = 0 THEN StoreTile(self, xlen, 0, 0, data)
        ELSE The({ IF PyInt(m[1][1]) = None \/ PyInt(m[1][2]) = None
                   THEN Raises(self, "ValueError")
                   ELSE StoreTile(self, xlen, PyInt(m[1][1])[1], PyInt(m[1][2])[1], data) :
                     m \in {re_startpoint(f[at].text)} }) :
          at \in {Seek(f, from, "startPoint")} })

\* lines 133-146: data
ReadData(self, f, from, xlen) ==
  The({ The({ IF \E i \in from..last : f[i].tag # "row"
              THEN Raises(self, "IndexError")
              ELSE ReadStartPoint(self, f, After(f, at), xlen,
                                  [i \in 1..(last + 1 - from) |-> Sample(f[from + i - 1])]) :
                last \in {IF at = 0 THEN Len(f) ELSE at - 1} }) :
          at \in {Seek(f, from, "tupleEnd")} })

\* lines 127-131: seek data head
SeekData(self, f, from, xlen) ==
  ReadData(self, f, After(f, Seek(f, from, "tupleStart")), xlen)

\* lines 118-125: grid size
ReadGridSize(self, f, from) ==
  The({ IF at = 0 THEN SeekData(self, f, After(f, at), None)
        ELSE The({ SeekData([self EXCEPT !.gridsize = Some(<<xlen, ylen>>)],
                            f, After(f, at), Some(xlen)) :
                     xlen \in {PyInt(re_high(f[at].text)[1][1])[1] + 1},
                     ylen \in {PyInt(re_high(f[at].text)[1][2])[1] + 1} }) :
          at \in {Seek(f, from, "high")} })

\* lines 102-116: lower and upper coordinates
ReadCorners(self, f, from) ==
  The({ IF lo = 0 \/ up = 0 THEN Raises(self, "UnboundLocalError")
        ELSE ReadGridSize([self EXCEPT !.extent =
                             Some(<<f[lo].g2, f[lo].g1, f[up].g2, f[up].g1>>)],
                          f, After(f, up)) :
          <<lo, up>> \in {<<l, Seek(f, After(f, l), "upper")>> :
                            l \in {Seek(f, from, "lower")}} })

\* lines 95-100: meshcode
ReadMesh(self, f) ==
  The({ ReadCorners(IF at = 0 THEN self ELSE [self EXCEPT !.mesh = Some(f[at].text)],
                    f, After(f, at)) :
          at \in {Seek(f, 1, "mesh")} })

\* read_xml_file treating a missing archive like a missing member
read_xml_file_nozip(self, meshcode, data_dir) ==
  LET zipfiles == SelectSeq(data_dir, LAMBDA z : z.level2 = Slice(meshcode, 0, 6))
  IN  IF Len(zipfiles) = 0 THEN Returns(clear(self))
      ELSE LET names == zipfiles[1].members
               hits  == {i \in 1..Len(names) : names[i].level3 = Slice(meshcode, 0, 8)}
           IN  IF hits = {} THEN Returns(clear(self))
               ELSE ReadMesh(self, names[CHOOSE i \in hits : \A j \in hits : i <= j].lines)

\* A data directory is a sequence of archives, an archive the Level2 code
\* of its name FG-GML-{level2code}-DEM*.zip and its members in namelist()
\* order, a member the Level3 code of its name *FG-GML-{level3code}-*.xml
\* and its lines.
read_xml_file(self, meshcode, data_dir) ==
  LET zipfiles == SelectSeq(data_dir, LAMBDA z : z.level2 = Slice(meshcode, 0, 6))
  IN  IF Len(zipfiles) = 0 THEN Raises(self, "RuntimeError")
      ELSE LET names == zipfiles[1].members
               hits  == {i \in 1..Len(names) : names[i].level3 = Slice(meshcode, 0, 8)}
           IN  IF hits = {} THEN Returns(clear(self))
               ELSE ReadMesh(self, names[CHOOSE i \in hits : \A j \in hits : i <= j].lines)

\* int(n / d) for d > 0: Python's int() truncates towards zero
Trunc(n, d) == IF n >= 0 THEN n \div d ELSE -((-n) \div d)

\* what get_elevation ends in: the fields, what it returned or raised, and
\* how many times it called read_xml_file
Return(self, value) ==
  [self |-> self, kind |-> "return", value |-> value, exc |-> "none", loads |-> 0]

Raise(self, exc) ==
  [self |-> self, kind |-> "raise", value |-> None, exc |-> exc, loads |-> 0]

\* lines 51-66.  Coordinates are whole numbers of lattice units, so the two
\* quotients are taken exactly:
\*   gridsize[0] * (lon - extent[0]) / (extent[2] - extent[0])
\*   gridsize[1] * (1.0 - (lat - extent[1]) / (extent[3] - extent[1]))
Lookup(self, lon, lat) ==
  IF self.mesh = None THEN Return(self, NoData)
  ELSE IF self.gridsize = None \/ self.extent = None THEN Raise(self, "TypeError")
  ELSE LET e    == self.extent[1]
           g    == self.gridsize[1]
           xpos == Trunc(g[1] * (lon - e[1]), e[3] - e[1])
           ypos == Trunc(g[2] * ((e[4] - e[2]) - (lat - e[2])), e[4] - e[2])
           pos  == ypos * g[1] + xpos - self.start_pos
       IN  IF e[3] = e[1] \/ e[4] = e[2] THEN Raise(self, "ZeroDivisionError")
           ELSE IF pos < 0 THEN Return(self, NoData)
           ELSE IF self.data = None THEN Raise(self, "TypeError")
           ELSE IF pos >= Len(self.data[1]) THEN Return(self, NoData)
           ELSE Return(self, self.data[1][pos + 1])

\* lines 44-46
NeedsLoad(self, lon, lat) ==
  \/ self.extent = None
  \/ lon < self.extent[1][1] \/ lat < self.extent[1][2]
  \/ lon >= self.extent[1][3] \/ lat >= self.extent[1][4]

\* meshcode is get_level3_meshcode(lon, lat)
get_elevation(self, lon, lat, meshcode, data_dir) ==
  IF NeedsLoad(self, lon, lat)
  THEN The({ [ (IF r.exc # "none" THEN Raise(r.self, r.exc) ELSE Lookup(r.self, lon, lat))
                 EXCEPT !.loads = 1 ] :
               r \in {read_xml_file(self, meshcode, data_dir)} })
  ELSE Lookup(self, lon, lat)

(***************************************************************************)
(* The extractor's inputs.  A longitude is a whole number of 1/2560        *)
(* degree (1/32 of a Level3 cell), a latitude of 1/480 degree (1/4 of a    *)
(* Level3 cell).  Query points start at the south-west corner of Level3    *)
(* cell 5339-45-37 and run east over 5339-45-38, 5339-45-39 and into       *)
(* Level2 cell 5339-46.  The data directory holds the archive of 5339-45   *)
(* alone, with a tile for cell 37 and one for cell 38; the tile of cell 37 *)
(* is one of TilesA.                                                       *)
(*                                                                         *)
(* Within a cell the points are its west or south edge and points strictly *)
(* inside a grid sample (grids are 4 or 16 samples wide and 2 high).  At   *)
(* an edge both quotients of lines 54-57 are exact in binary64; inside a   *)
(* sample they are at least 1/8 away from a whole number, far beyond the   *)
(* rounding error, so int() of the float equals int() of the exact value.  *)
(***************************************************************************)
ElevLonCells == 3

ElevLatCells == 0

ElevLonDen == 32 * 80

ElevLatDen == 4 * 120

ElevLonOrigin == 32 * (80 * 139 + 10 * 5 + 7)

ElevLatOrigin == 4 * (80 * 53 + 10 * 4 + 3)

ElevLons == { ElevLonOrigin + 32 * c + o : c \in 0..ElevLonCells, o \in {0, 9, 25} }

ElevLats == { ElevLatOrigin + 4 * c + o : c \in 0..ElevLatCells, o \in {0, 1, 3} }

\* the float of a coordinate
LonFloat(n) == Round(XDiv(FromInt(n), ElevLonDen))

LatFloat(n) == Round(XDiv(FromInt(n), ElevLatDen))

\* get_level3_meshcode at the query points
Level3CodeAt ==
  [n \in ElevLons, m \in ElevLats |-> get_level3_meshcode(LonFloat(n), LatFloat(m))]

CodeA == <<5, 3, 3, 9, 4, 5, 3, 7>>

CodeB == <<5, 3, 3, 9, 4, 5, 3, 8>>

\* a tile as the publisher writes it
TileLines(code, lon0, cols, rows, samples, startx, starty) ==
  <<OtherLine, MeshLine(code),
    LowerLine(ElevLatOrigin, lon0), UpperLine(ElevLatOrigin + 4, lon0 + 32),
    HighLine(cols - 1, rows - 1), TupleStart>>
  \o [i \in 1..Len(samples) |-> RowLine(samples[i][1], samples[i][2])]
  \o <<TupleEnd, StartPointLine(startx, starty), OtherLine>>

Without(f, tag) == SelectSeq(f, LAMBDA ln : ln.tag # tag)

\* a full tile of 4 x 2 samples
FullA ==
  TileLines(CodeA, ElevLonOrigin, 4, 2,
            <<<<"ground", 10>>, <<"ground", 11>>, <<"nodata", -9999>>, <<"ground", 13>>,
              <<"sea", -9000>>, <<"ground", 15>>, <<"ground", 16>>, <<"sea", -9001>>>>,
            0, 0)

\* tiles of a 16 x 2 grid that cover the end of its second row
PartA ==
  TileLines(CodeA, ElevLonOrigin, 16, 2,
            <<<<"ground", 30>>, <<"ground", 31>>, <<"sea", -9999>>, <<"ground", 33>>>>,
            12, 1)

PartA1 ==
  TileLines(CodeA, ElevLonOrigin, 16, 2,
            <<<<"ground", 40>>, <<"ground", 41>>, <<"ground", 42>>>>,
            4, 1)

\* PartA cut off in its data
CutA == SubSeq(PartA, 1, 8)

\* a tile like PartA in which markers also occur out of document order: a
\* grid-high before the mesh id, a second mesh id, a start point and an
\* upper corner before the lower corner, a second lower corner, a second
\* start point
OrderA ==
  <<OtherLine, HighLine(3, 1), MeshLine(CodeA), MeshLine(CodeB),
    StartPointLine(10, 0), UpperLine(ElevLatOrigin + 8, ElevLonOrigin + 64),
    LowerLine(ElevLatOrigin, ElevLonOrigin),
    LowerLine(ElevLatOrigin + 1, ElevLonOrigin + 1),
    UpperLine(ElevLatOrigin + 4, ElevLonOrigin + 32),
    HighLine(15, 1), TupleStart,
    RowLine("ground", 50), RowLine("ground", 51), RowLine("sea", 52), RowLine("ground", 53),
    TupleEnd, StartPointLine(12, 1), StartPointLine(13, 1), OtherLine>>

TilesA ==
  <<FullA, PartA, PartA1,
    Without(PartA, "mesh"), Without(PartA, "lower"), Without(PartA, "upper"),
    Without(PartA, "high"), Without(PartA, "tupleStart"), Without(PartA, "tupleEnd"),
    Without(PartA, "startPoint"), CutA, OrderA>>

TileB ==
  TileLines(CodeB, ElevLonOrigin + 32, 4, 2,
            <<<<"ground", 20>>, <<"ground", 21>>, <<"ground", 22>>, <<"ground", 23>>,
              <<"ground", 24>>, <<"ground", 25>>, <<"ground", 26>>, <<"ground", 27>>>>,
            0, 0)

DataDir(t) ==
  <<[level2  |-> Slice(CodeA, 0, 6),
     members |-> <<[level3 |-> CodeA, lines |-> TilesA[t]],
                   [level3 |-> CodeB, lines |-> TileB]>>]>>

(***************************************************************************)
(* The codec's inputs: the points of a lattice of 1/1280 degree in lon and *)
(* in lat * 1.5 (every boundary of every level lies on it, and so does the *)
(* centre of every Level6 cell) laid over the corner where four Level2     *)
(* cells meet, each lattice point taken as the nearest float and as the    *)
(* floats up to MeshUlps units in the last place on either side of it.     *)
(***************************************************************************)
MeshLonSteps == 6

MeshLatSteps == 6

MeshUlps == 1

MeshLonOrigin == 1280 * 139 + 957

MeshLatOrigin == 1280 * 53 + 637

Nudge(a, k) ==
  LET ulp == Pow2(BitLen(a) - Prec)
  IN  IF k < 0 THEN XSub(a, XMul(ulp, -k)) ELSE XAdd(a, XMul(ulp, k))

MeshLons ==
  { Nudge(Round(XDiv(FromInt(MeshLonOrigin + i), 1280)), k) :
      i \in 0..MeshLonSteps, k \in (-MeshUlps)..MeshUlps }

MeshLats ==
  { Nudge(Round(XDiv(FromInt(MeshLatOrigin + j), 1920)), k) :
      j \in 0..MeshLatSteps, k \in (-MeshUlps)..MeshUlps }

\* the points <<lon, lat>> of the self-test, as the floats their literals
\* denote: (141.35437012, 43.06197357), (139.70346069, 35.69388962),
\* (134.99717712, 34.64310837), (125.28115845, 24.80549049)
MeshTests ==
  { << <<0, 5216, 12, 23224, 141>>,     <<0, 24010, 32760, 4061, 43>> >>,
    << <<0, 37464, 65521, 46101, 139>>, <<0, 61202, 49160, 45474, 35>> >>,
    << <<0, 47152, 65518, 65350, 134>>, <<0, 61202, 49160, 42146, 34>> >>,
    << <<0, 48764, 11, 18426, 125>>,    <<0, 51709, 40943, 52788, 24>> >> }

\* the two ends of the domain, lon in [100, 200) and lat in [0, 66 + 2/3):
\* (100.0, 0.0) and (199.99999999999997, 66.66666666666666), the largest
\* floats below 200 and below 200/3
MeshCorners ==
  { << <<0, 0, 0, 0, 100>>,             <<0, 0, 0, 0, 0>> >>,
    << <<0, 65528, 65535, 65535, 199>>, <<0, 43688, 43690, 43690, 66>> >> }

\* three points on the midline of a cell: (129.48125, 30.210416666666667)
\* of a Level3 cell, (186.696875, 29.985416666666666) of a Level4 cell,
\* (118.01171875, 32.790625) of a Level5 cell
MeshEdges ==
  { << <<0, 13104, 13107, 31539, 129>>, <<0, 56798, 56797, 13789, 30>> >>,
    << <<0, 26216, 26214, 45670, 186>>, <<0, 17476, 17476, 64580, 29>> >>,
    << <<0, 0, 0, 768, 118>>,           <<0, 26214, 26214, 51814, 32>> >> }

\* the digit count of the code of each level
CodeLen == <<4, 6, 8, 9, 10, 11>>

NoExtent == [ok |-> FALSE, err |-> "none"]

\* the extractor, newly constructed
ElevIdle ==
  /\ extractor = Cleared
  /\ pre = Cleared
  /\ qlon = 0
  /\ qlat = 0
  /\ loads = 0
  /\ result = [kind |-> "none", value |-> None, exc |-> "none"]

MeshInit ==
  /\ tile = 1
  /\ ElevIdle
  /\ \/ plon \in MeshLons /\ plat \in MeshLats
     \/ \E t \in MeshTests \cup MeshCorners \cup MeshEdges : plon = t[1] /\ plat = t[2]
  /\ mop = "point"
  /\ mlevel = 0
  /\ mcode = <<>>
  /\ mext = NoExtent

\* get_extent(get_levelL_meshcode(p))
MeshExtent(L) ==
  /\ mop = "point"
  /\ mop' = "extent"
  /\ mlevel' = L
  /\ \E code \in {Slice(get_level6_meshcode(plon, plat), 0, CodeLen[L])} :
       mcode' = code /\ mext' = get_extent(code)
  /\ UNCHANGED <<plon, plat, evars>>

\* get_extent(get_2km_meshcode(p))
Mesh2km ==
  /\ mop = "point"
  /\ mop' = "2km"
  /\ mlevel' = 0
  /\ \E code \in {get_2km_meshcode(plon, plat)} :
       mcode' = code /\ mext' = get_extent(code)
  /\ UNCHANGED <<plon, plat, evars>>

\* get_extent(get_5km_meshcode(p))
Mesh5km ==
  /\ mop = "point"
  /\ mop' = "5km"
  /\ mlevel' = 0
  /\ \E code \in {get_5km_meshcode(plon, plat)} :
       mcode' = code /\ mext' = get_extent(code)
  /\ UNCHANGED <<plon, plat, evars>>

MeshNext ==
  \/ \E L \in 1..6 : MeshExtent(L)
  \/ Mesh2km
  \/ Mesh5km

SpecMesh == MeshInit /\ [][MeshNext]_vars

\* the half-open rule
Contains(ext, lon, lat) ==
  /\ FLeq(ext[1], lon) /\ FLess(lon, ext[3])
  /\ FLeq(ext[2], lat) /\ FLess(lat, ext[4])

\* C1: for every in-domain point and every level 1..6, the extent of the
\* point's code at that level contains the point under the half-open rule.
C1_ExtentContainsPoint ==
  mop = "extent" => mext.ok /\ Contains(mext.ext, plon, plat)

\* hi - lo is 1/n degree, to within 2^-34 (under 1e-10)
WidthIs(lo, hi, n) ==
  LET w == XSub(hi, lo)
      r == Recip(n)
  IN  FLess(lo, hi) /\ FLess(w, XAdd(r, Pow2(30))) /\ FLess(r, XAdd(w, Pow2(30)))

\* C7: get_extent resolves the codes of get_2km_meshcode (9 digits, the last
\* one 5) and of get_5km_meshcode (7 digits) to their own extents, 1/40 by
\* 1/60 degree and 1/16 by 1/24 degree, and rejects neither.
C7_IntegratedCodesResolve ==
  /\ mop = "2km" =>
       /\ Len(mcode) = 9 /\ At(mcode, 8) = 5
       /\ mext.ok
       /\ WidthIs(mext.ext[1], mext.ext[3], 40)
       /\ WidthIs(mext.ext[2], mext.ext[4], 60)
  /\ mop = "5km" =>
       /\ Len(mcode) = 7
       /\ mext.ok
       /\ WidthIs(mext.ext[1], mext.ext[3], 16)
       /\ WidthIs(mext.ext[2], mext.ext[4], 24)

\* extent inner lies within extent outer
Within(inner, outer) ==
  /\ FLeq(outer[1], inner[1]) /\ FLeq(outer[2], inner[2])
  /\ FLeq(inner[3], outer[3]) /\ FLeq(inner[4], outer[4])

\* get_extent of the point's code one level up (the code's prefix)
C11_Parent == get_extent(Slice(mcode, 0, CodeLen[mlevel - 1]))

\* C11: for every in-domain point and levels L, L+1 (L in 1..5), the extent
\* of the point's level-(L+1) code lies within the extent of its level-L
\* code: lonMin, latMin not smaller and lonMax, latMax not larger.
C11_ExtentsNest ==
  (mop = "extent" /\ mlevel >= 2)
  => \E outer \in {C11_Parent} :
       mext.ok /\ outer.ok /\ Within(mext.ext, outer.ext)

\* the point (lon=139.70346069, lat=35.69388962)
C12_AtFixture ==
  /\ plon = <<0, 37464, 65521, 46101, 139>>
  /\ plat = <<0, 61202, 49160, 45474, 35>>

\* the integrated codes of a Level6 code c
C12_Code2km(c) ==
  Slice(c, 0, 6)
    \o <<IF At(c, 6) % 2 = 1 THEN At(c, 6) - 1 ELSE At(c, 6),
         IF At(c, 7) % 2 = 1 THEN At(c, 7) - 1 ELSE At(c, 7),
         5>>

C12_Code5km(c) ==
  Slice(c, 0, 6)
    \o <<1 + 2 * (IF At(c, 6) >= 5 THEN 1 ELSE 0) + (IF At(c, 7) >= 5 THEN 1 ELSE 0)>>

C12_Derived ==
  \E c \in {get_level6_meshcode(plon, plat)} :
    /\ mop = "2km" => mcode = C12_Code2km(c)
    /\ mop = "5km" => mcode = C12_Code5km(c)

\* C12 as stated: the integrated codes are derived from the Level6 code c
\* (2km: c[0:6], digits 6 and 7 made even, "5"; 5km: c[0:6] and
\* 1 + 2*[c[6] >= 5] + [c[7] >= 5]), and the fixture point has Level6 code
\* 53394536141, 2km code 533945365 and 5km code 5339452.
C12_AsStated ==
  /\ (mop \in {"2km", "5km"}) => C12_Derived
  /\ C12_AtFixture =>
       /\ (mop = "extent" /\ mlevel = 6) => mcode = <<5, 3, 3, 9, 4, 5, 3, 6, 1, 4, 1>>
       /\ mop = "2km" => mcode = <<5, 3, 3, 9, 4, 5, 3, 6, 5>>
       /\ mop = "5km" => mcode = <<5, 3, 3, 9, 4, 5, 2>>

\* C12, amended: the same derivation; the fixture point has Level6 code
\* 53394536141, 2km code 533945265 (digit 6, a 3, is made even) and 5km
\* code 5339452.
C12_IntegratedCodes ==
  /\ (mop \in {"2km", "5km"}) => C12_Derived
  /\ C12_AtFixture =>
       /\ (mop = "extent" /\ mlevel = 6) => mcode = <<5, 3, 3, 9, 4, 5, 3, 6, 1, 4, 1>>
       /\ mop = "2km" => mcode = <<5, 3, 3, 9, 4, 5, 2, 6, 5>>
       /\ mop = "5km" => mcode = <<5, 3, 3, 9, 4, 5, 2>>

C12_Witness ==
  /\ C12_AtFixture
  /\ mop = "2km"
  /\ mcode = <<5, 3, 3, 9, 4, 5, 2, 6, 5>>

\* the widths of levels 1..6 as floats: 1/n degree of longitude, 2/3 and
\* 1/n degree of latitude
C13_LonWidth ==
  [L \in 1..6 |-> FDiv(FromInt(1), <<1, 8, 80, 160, 320, 640>>[L], 1)]

C13_LatWidth ==
  [L \in 1..6 |-> IF L = 1 THEN FDiv(FromInt(2), 3, 1)
                  ELSE FDiv(FromInt(1), <<1, 12, 120, 240, 480, 960>>[L], 1)]

\* hi - lo is w, to within 2^-44 degree (under 1e-13)
C13_Near(lo, hi, w) ==
  \E d \in {XSub(hi, lo)} :
    FLess(d, XAdd(w, Pow2(20))) /\ FLess(w, XAdd(d, Pow2(20)))

\* C13 as stated: the extent of a valid code of level L has exactly the
\* level's longitude and latitude width, and lonMax > lonMin, latMax >
\* latMin.
C13_AsStated ==
  mop = "extent"
  => /\ mext.ok
     /\ FLess(mext.ext[1], mext.ext[3]) /\ FLess(mext.ext[2], mext.ext[4])
     /\ XSub(mext.ext[3], mext.ext[1]) = C13_LonWidth[mlevel]
     /\ XSub(mext.ext[4], mext.ext[2]) = C13_LatWidth[mlevel]

\* C13, amended: the widths are the level's widths to within 1e-13 degree,
\* the longitude widths of levels 1 and 2 (1 and 1/8) exactly, and
\* lonMax > lonMin, latMax > latMin.
C13_Widths ==
  mop = "extent"
  => /\ mext.ok
     /\ FLess(mext.ext[1], mext.ext[3]) /\ FLess(mext.ext[2], mext.ext[4])
     /\ C13_Near(mext.ext[1], mext.ext[3], C13_LonWidth[mlevel])
     /\ C13_Near(mext.ext[2], mext.ext[4], C13_LatWidth[mlevel])
     /\ mlevel \in {1, 2} => XSub(mext.ext[3], mext.ext[1]) = C13_LonWidth[mlevel]

\* a Level3 extent whose width is not the float 1/80
C13_Witness ==
  /\ mop = "extent" /\ mlevel = 3 /\ mext.ok
  /\ XSub(mext.ext[3], mext.ext[1]) # C13_LonWidth[3]
  /\ C13_Near(mext.ext[1], mext.ext[3], C13_LonWidth[3])

(***************************************************************************)
(* The extractor: __init__, then any sequence of get_elevation calls.      *)
(***************************************************************************)
MeshIdle ==
  /\ plon = FZero
  /\ plat = FZero
  /\ mop = "point"
  /\ mlevel = 0
  /\ mcode = <<>>
  /\ mext = NoExtent

Init ==
  /\ tile \in 1..Len(TilesA)
  /\ ElevIdle
  /\ MeshIdle

GetElevation(lon, lat) ==
  \E r \in {get_elevation(extractor, lon, lat, Level3CodeAt[lon, lat], DataDir(tile))} :
    /\ pre' = extractor
    /\ qlon' = lon
    /\ qlat' = lat
    /\ loads' = r.loads
    /\ extractor' = r.self
    /\ result' = [kind |-> r.kind, value |-> r.value, exc |-> r.exc]
    /\ UNCHANGED <<tile, mvars>>

Next == \E lon \in ElevLons, lat \in ElevLats : GetElevation(lon, lat)

Spec == Init /\ [][Next]_vars

(***************************************************************************)
(* Properties of the extractor.                                            *)
(***************************************************************************)
Called == result.kind # "none"

\* the half-open rule of lines 44-46
Inside(s, lon, lat) ==
  /\ s.extent # None
  /\ s.extent[1][1] <= lon /\ lon < s.extent[1][3]
  /\ s.extent[1][2] <= lat /\ lat < s.extent[1][4]

\* mesh, extent, gridsize and data are all set
TileResident(s) ==
  s.mesh # None /\ s.extent # None /\ s.gridsize # None /\ s.data # None

\* the Level3 code of the last call's point
QueryCode == Level3CodeAt[qlon, qlat]

HasArchive(code) ==
  \E a \in 1..Len(DataDir(tile)) : DataDir(tile)[a].level2 = Slice(code, 0, 6)

\* the published tiles of a Level3 code
Members(code) ==
  { m \in UNION { {z.members[i] : i \in 1..Len(z.members)} :
                  z \in {DataDir(tile)[a] : a \in 1..Len(DataDir(tile))} } :
      m.level3 = code }

HasMember(code) == Members(code) # {}

Stream(code) == The({ m.lines : m \in Members(code) })

Markers == {"mesh", "lower", "upper", "high", "tupleStart", "tupleEnd", "startPoint"}

\* the markers in document order
MarkerOrder ==
  <<"mesh", "lower", "upper", "high", "tupleStart", "tupleEnd", "startPoint">>

\* where the markers from the k-th on are in f, each the first occurrence
\* after the one before it, the first of them at line from or later (0:
\* there is none)
RECURSIVE LocateFrom(_, _, _)
LocateFrom(f, k, from) ==
  IF k > Len(MarkerOrder) THEN <<>>
  ELSE LET hits == {i \in from..Len(f) : f[i].tag = MarkerOrder[k]}
           at   == IF hits = {} THEN 0 ELSE CHOOSE i \in hits : \A j \in hits : i <= j
       IN  <<at>> \o LocateFrom(f, k + 1, IF at = 0 THEN Len(f) + 1 ELSE at + 1)

Located(f) == LocateFrom(f, 1, 1)

Missing(f) == { MarkerOrder[k] : k \in {k \in 1..Len(MarkerOrder) : Located(f)[k] = 0} }

TheLine(f, tag) == f[Located(f)[CHOOSE k \in 1..Len(MarkerOrder) : MarkerOrder[k] = tag]]

\* the Level3 cell of a point: tiles are published one per cell
Level3Cell(lon, lat) ==
  <<(lon - ElevLonOrigin) \div 32, (lat - ElevLatOrigin) \div 4>>

\* the last call loaded the published tile of its point, completely
LoadedTile ==
  /\ Called /\ loads = 1 /\ result.kind = "return"
  /\ HasArchive(QueryCode) /\ HasMember(QueryCode)

C2_LoadRule ==
  Called => /\ loads \in {0, 1}
            /\ loads = 1 <=> (pre.mesh = None \/ ~Inside(pre, qlon, qlat))

C2_SecondQueryInTile ==
  ( /\ LoadedTile
    /\ Level3Cell(qlon', qlat') = Level3Cell(qlon, qlat) )
  => loads' = 0

\* C2: a call loads a tile exactly when none is resident or the point is
\* outside the resident extent, and at most once; so of two consecutive
\* queries inside the same tile's extent only the first one loads.
C2_LoadExactlyWhenNeeded ==
  [](C2_LoadRule) /\ [][C2_SecondQueryInTile]_vars

\* C3: a call that needs a reload and finds no archive for the Level2 prefix
\* of the point's code raises RuntimeError, whatever came before; it does
\* not return the no-data sentinel.
C3_NoArchiveRaises ==
  (Called /\ loads = 1 /\ ~HasArchive(QueryCode))
  => result.kind = "raise" /\ result.exc = "RuntimeError" /\ result.value # NoData

C3_Witness ==
  /\ Called /\ loads = 1 /\ ~HasArchive(QueryCode)
  /\ TileResident(pre)
  /\ result.exc = "RuntimeError"

\* C4: a call that needs a reload, finds the archive and no member for the
\* Level3 code does not raise: it clears every field and returns the
\* no-data sentinel, whichever tile was resident.
C4_NoMemberClears ==
  (Called /\ loads = 1 /\ HasArchive(QueryCode) /\ ~HasMember(QueryCode))
  => /\ result.kind = "return"
     /\ result.value = NoData
     /\ extractor = Cleared

C4_Witness ==
  /\ Called /\ loads = 1 /\ HasArchive(QueryCode) /\ ~HasMember(QueryCode)
  /\ TileResident(pre)
  /\ extractor = Cleared
  /\ result.value = NoData

\* the fields a complete load of a published tile leaves
WholeTiles ==
  { r.self : r \in { x \in { read_xml_file(Cleared, code, DataDir(tile)) :
                               code \in {CodeA, CodeB} } : x.exc = "none" } }

\* C5: whenever a call returns or raises, the fields are all empty or all
\* those of one tile; a reload that fails part-way leaves no mixture.
C5_AtomicReplacement ==
  Called => extractor = Cleared \/ extractor \in WholeTiles

C6_Col == (extractor.gridsize[1][1] * (qlon - extractor.extent[1][1]))
            \div (extractor.extent[1][3] - extractor.extent[1][1])

C6_Row == (extractor.gridsize[1][2]
             * ((extractor.extent[1][4] - extractor.extent[1][2])
                  - (qlat - extractor.extent[1][2])))
            \div (extractor.extent[1][4] - extractor.extent[1][2])

C6_FlatIndex == C6_Row * extractor.gridsize[1][1] + C6_Col - extractor.start_pos

\* C6: with a tile resident and the point inside its extent, the call
\* returns samples[flatIndex], flatIndex = row * cols + col - start_pos, or
\* the no-data sentinel when flatIndex is out of range; the grid coordinate
\* of the tile's recorded start point gets samples[0].
C6_IndexedSample ==
  (Called /\ extractor \in WholeTiles /\ Inside(extractor, qlon, qlat))
  => /\ result.kind = "return"
     /\ result.value = IF C6_FlatIndex \in 0..(Len(extractor.data[1]) - 1)
                       THEN extractor.data[1][C6_FlatIndex + 1]
                       ELSE NoData
     /\ \A code \in {CodeA, CodeB} :
          ( /\ HasMember(code) /\ Missing(Stream(code)) = {}
            /\ extractor = read_xml_file(Cleared, code, DataDir(tile)).self
            /\ C6_Col = TheLine(Stream(code), "startPoint").g1
            /\ C6_Row = TheLine(Stream(code), "startPoint").g2
            /\ Len(extractor.data[1]) > 0 )
          => result.value = extractor.data[1][1]

\* C8: loading a tile stream that lacks any one of the seven markers fails
\* with an error, and no samples are installed from it.
C8_MalformedTileFails ==
  (Called /\ loads = 1 /\ HasArchive(QueryCode) /\ HasMember(QueryCode)
     /\ Missing(Stream(QueryCode)) # {})
  => result.kind = "raise" /\ extractor.data = pre.data

\* C9: loading a well-formed tile whose start point is "x y" sets
\* start_pos = y * cols + x, cols being the first number of high plus one.
C9_StartOffset ==
  (Called /\ loads = 1 /\ HasArchive(QueryCode) /\ HasMember(QueryCode)
     /\ Missing(Stream(QueryCode)) = {})
  => /\ result.kind = "return"
     /\ extractor.start_pos =
          TheLine(Stream(QueryCode), "startPoint").g2
            * (TheLine(Stream(QueryCode), "high").g1 + 1)
          + TheLine(Stream(QueryCode), "startPoint").g1

\* the data rows of a tile stream, in stream order
Rows(f) == SelectSeq(f, LAMBDA ln : ln.tag = "row")

\* C10: the samples are the rows between the tuple-list tags in stream
\* order; a value below -9000 becomes the missing-value marker, a value of
\* -9000 or more is stored as it is, each with the row's type.
C10_SamplesFromRows ==
  (LoadedTile /\ {"tupleStart", "tupleEnd"} \cap Missing(Stream(QueryCode)) = {})
  => /\ extractor.data # None
     /\ Len(extractor.data[1]) = Len(Rows(Stream(QueryCode)))
     /\ \A i \in 1..Len(Rows(Stream(QueryCode))) :
          LET row == Rows(Stream(QueryCode))[i]
          IN  /\ extractor.data[1][i][2] = row.loctype
              /\ row.g2 < -9000 => extractor.data[1][i][1] = NaN
              /\ row.g2 >= -9000 => extractor.data[1][i][1] = Some(row.g2)

C10_Witness ==
  /\ LoadedTile
  /\ extractor.data # None
  /\ \E i, j, k \in 1..Len(extractor.data[1]) :
       /\ Rows(Stream(QueryCode))[i].g2 = -9999 /\ extractor.data[1][i][1] = NaN
       /\ Rows(Stream(QueryCode))[j].g2 = -9000 /\ extractor.data[1][j][1] = Some(-9000)
       /\ Rows(Stream(QueryCode))[k].g2 = -9001 /\ extractor.data[1][k][1] = NaN

FullCoverage(s) ==
  /\ TileResident(s)
  /\ s.start_pos = 0
  /\ Len(s.data[1]) = s.gridsize[1][1] * s.gridsize[1][2]

\* C15: for a point inside the resident tile's half-open extent the grid
\* indices are inside the grid, 0 <= col < cols and 0 <= row < rows; so on
\* a tile that covers its whole grid every such query, one on the southern
\* edge lat = latMin included, returns the stored sample of its cell.
C15_IndicesInGrid ==
  (Called /\ extractor \in WholeTiles /\ Inside(extractor, qlon, qlat))
  => /\ C6_Col \in 0..(extractor.gridsize[1][1] - 1)
     /\ C6_Row \in 0..(extractor.gridsize[1][2] - 1)
     /\ FullCoverage(extractor)
          => /\ result.kind = "return"
             /\ result.value
                  = extractor.data[1][C6_Row * extractor.gridsize[1][1] + C6_Col + 1]

\* the datasets whose tiles all have the seven markers in document order
\* (the recorded extent of each is the extent of its Level3 cell)
WellFormed == { t \in 1..Len(TilesA) : Missing(TilesA[t]) = {} }

\* what a freshly constructed extractor answers for the last call's point
C16_Fresh == get_elevation(Cleared, qlon, qlat, QueryCode, DataDir(tile))

C16_SameAsFresh ==
  \E fresh \in {C16_Fresh} :
    /\ result.kind = fresh.kind
    /\ result.value = fresh.value
    /\ result.exc = fresh.exc

\* the fields an extractor can have after queries that all returned, over a
\* well-formed dataset: empty (no query yet, or the last load found no
\* member) or those of one tile
C16_AfterReturns == {Cleared} \cup WholeTiles

\* C16: the one-tile cache is transparent.  Over a dataset of well-formed
\* tiles, a query made after queries that all returned (a sample or the
\* no-data label) has the result a freshly constructed extractor returns
\* for the same point.
C16_CacheTransparent ==
  (tile \in WellFormed /\ Called /\ pre \in C16_AfterReturns)
  => C16_SameAsFresh

\* the digits a position of a code may hold: 0..7 at the Level2 positions,
\* 1..4 at the quadrant positions, any decimal digit elsewhere
C17_DigitRange(i) ==
  IF i \in {4, 5} THEN 0..7 ELSE IF i \in {8, 9, 10} THEN 1..4 ELSE 0..9

\* the point is in the north (the east) half of the cell of the first i
\* digits of its code: at or beyond the southern (the western) edge of that
\* cell's quadrant 3 (quadrant 2)
C17_NorthHalf(i) ==
  IF FLeq(get_extent(Slice(mcode, 0, i) \o <<3>>).ext[2], plat) THEN 1 ELSE 0

C17_EastHalf(i) ==
  IF FLeq(get_extent(Slice(mcode, 0, i) \o <<2>>).ext[1], plon) THEN 1 ELSE 0

=============================================================================
